---------------------------- MODULE Spec2Model ----------------------------
(***************************************************************************)
(* A model of src/bot.py: the conversation state machine that collects a   *)
(* post draft, the two durable JSON stores, the scheduler's job store and  *)
(* the scheduled-broadcast coroutine.                                      *)
(*                                                                         *)
(* Execution model.  python-telegram-bot processes updates one at a time   *)
(* (concurrent_updates is off, every handler is blocking), so an update    *)
(* handler is one atomic action.  A scheduled job is an asyncio task of    *)
(* its own: it can switch at each await, so post_scheduled is modelled     *)
(* step by step.  Replies to the user are assumed to be delivered; the     *)
(* per-channel send and the job's notification can succeed or raise.       *)
(***************************************************************************)
EXTENDS Integers, Sequences, FiniteSets, TLC

(***************************************************************************)
(* Bounds of the model.                                                    *)
(***************************************************************************)
MaxNow == 4               \* the clock runs over 0..MaxNow
SecondsPerMinute == 2     \* clock ticks in a minute
MinutesPerDay == 2        \* distinct HH:MM values in a day
MaxUploads == 2           \* thumbnails uploaded in a run
MaxPosts == 2             \* entries of an owner in scheduled_posts.json
MaxListed == 6            \* entries of the listing specification's store

Users == {1}
ChannelIds == {"-1001", "-1002"}
ChannelTexts == {"-1001", "-01001", "abc", "/cancel"}
AccessResults == {"can_post", "no_permission", "unreachable"}
LinkTexts == {<<"a", ".">>}
ThumbnailTypes == {"photo"}
BotTypes == {"xrated"}

(***************************************************************************)
(* Conversation states (bot.py line 19) and ConversationHandler.END.       *)
(***************************************************************************)
THUMBNAIL == 0
VIDEO_LINK == 1
BOT_SELECTION == 2
ADDING_CHANNEL == 3
SCHEDULE_OR_POST_NOW == 4
SCHEDULE_TIME == 5
CONFIRM_ANOTHER == 6
END == -1

BOT_TUTORIALS == [b \in {"xrated", "nightrider"} |->
                    IF b = "xrated" THEN "TutorialsNG/11" ELSE "TutorialsNG/10"]

HistorySize == 5          \* [:5] of the "Recently Posted" section

(***************************************************************************)
(* Keyboards: the callback data each reply markup carries.                 *)
(***************************************************************************)
StartKeyboard == {"create_post", "manage_channels", "check_scheduled", "help"}
HelpKeyboard == {"main_menu"}
AddChannelKeyboard == {"add_channel", "list_channels", "main_menu"}
ListChannelsKeyboard == {"add_channel", "create_post", "main_menu"}
ManageKeyboard == {"add_channel", "list_channels", "create_post", "main_menu"}
BotKeyboard == {"xrated", "nightrider", "main_menu"}
ScheduleKeyboard == {"post_now", "schedule", "main_menu"}
PostedKeyboard == {"create_post", "main_menu"}
CheckKeyboard == {"create_post", "main_menu"}
ScheduledKeyboard == {"create_post", "check_scheduled", "main_menu"}
Buttons == StartKeyboard \cup ManageKeyboard \cup BotKeyboard \cup ScheduleKeyboard
\* The buttons whose handler reads the draft.  Every other button is on a keyboard
\* that /start and the menus send without touching anything else; these two are
\* pressed only on a message that still carries them: video_link_received sends
\* one such message, and schedule_post_prompt edits the pressed one into the
\* post-now/schedule keyboard.
BotButtons == {"xrated", "nightrider"}
Pressed == (Buttons \ {"xrated", "nightrider"}) \cup BotTypes

(***************************************************************************)
(* Dictionaries and lists.                                                 *)
(***************************************************************************)
EmptyDict == [k \in {} |-> 0]
Put(d, k, v) == [x \in DOMAIN d \cup {k} |-> IF x = k THEN v ELSE d[x]]
Pop(d, k) == [x \in DOMAIN d \ {k} |-> d[x]]
Get(d, k, default) == IF k \in DOMAIN d THEN d[k] ELSE default
Contains(s, x) == \E i \in 1..Len(s) : s[i] = x
Count(s, x) == Cardinality({i \in 1..Len(s) : s[i] = x})

(***************************************************************************)
(* escape_markdown: a backslash before every special character (the        *)
(* backquote, which a TLA+ string cannot hold, is left out of the set).    *)
(***************************************************************************)
SpecialChars == {"_", "*", "[", "]", "(", ")", "~", ">", "#", "+", "-",
                 "=", "|", "{", "}", ".", "!"}
RECURSIVE escape_markdown(_)
escape_markdown(text) ==
    IF text = <<>> THEN <<>>
    ELSE (IF Head(text) \in SpecialChars THEN <<"\\", Head(text)>>
          ELSE <<Head(text)>>) \o escape_markdown(Tail(text))

(***************************************************************************)
(* Time.  An instant is a number of clock ticks.  strftime with            *)
(* "%Y-%m-%d %H:%M:%S" is the triple <<day, minute, second>>; strings of   *)
(* that format compare as the triples do, lexicographically.               *)
(***************************************************************************)
TicksPerDay == MinutesPerDay * SecondsPerMinute
TimeTexts == 0..MinutesPerDay
ValidTime(text) == text \in 0..(MinutesPerDay - 1)
Combine(date, minute) == (date \div TicksPerDay) * TicksPerDay + minute * SecondsPerMinute
Strftime(t) == <<t \div TicksPerDay, (t % TicksPerDay) \div SecondsPerMinute,
                 t % SecondsPerMinute>>
Strptime(s) == s[1] * TicksPerDay + s[2] * SecondsPerMinute + s[3]
StrLess(a, b) ==
    \/ a[1] < b[1]
    \/ a[1] = b[1] /\ a[2] < b[2]
    \/ a[1] = b[1] /\ a[2] = b[2] /\ a[3] < b[3]

VARIABLES
    now,            \* the instant of the last step that depends on the time
    conv,           \* ConversationHandler's state of each user's conversation
    user_data,      \* the module's dict of drafts
    channels_file,  \* channels.json
    posts_file,     \* scheduled_posts.json
    jobs,           \* the scheduler's job store
    running,        \* post_scheduled coroutines started and not yet returned
    shown,          \* the messages in each user's chat that carry the bot buttons
    next_file,      \* the file id the next uploaded thumbnail gets
    sent,           \* the broadcasts made: what reached the send loop
    last            \* the last update, the handler it went to, what it replied

vars == <<now, conv, user_data, channels_file, posts_file, jobs, running,
          shown, next_file, sent, last>>

NoUpdate == [user |-> 0, update |-> "none", handler |-> "none",
             outcome |-> "none", reply |-> <<>>]
Handled(u, update, handler, outcome, reply) ==
    [user |-> u, update |-> update, handler |-> handler,
     outcome |-> outcome, reply |-> reply]

\* A channels.json that json.load cannot parse (cut short, or not JSON at all):
\* load_channels raises json.JSONDecodeError, a ValueError.  The value stands
\* apart from every dict of users by its key, which is no user.
Unparseable == (0 :> <<"{">>)
CanLoad(file) == file # Unparseable

\* channels.json as earlier runs left it: no file, one channel of the user, or
\* a file that cannot be parsed
StoredChannels == {EmptyDict, Unparseable} \cup {(u :> <<"-1002">>) : u \in Users}

Init ==
    /\ now = 0
    /\ conv = [u \in Users |-> END]
    /\ user_data = EmptyDict
    /\ channels_file \in StoredChannels
    /\ posts_file = EmptyDict
    /\ jobs = <<>>
    /\ running = <<>>
    /\ shown = [u \in Users |-> 0]
    /\ next_file = 1
    /\ sent = <<>>
    /\ last = NoUpdate

(***************************************************************************)
(* A handler's common effects: the conversation's new state, the keyboard  *)
(* its reply carries, and the record of the update.                        *)
(***************************************************************************)
Answer(u, update, handler, outcome, reply, state, keyboard) ==
    /\ conv' = [conv EXCEPT ![u] = state]
    /\ shown' = [shown EXCEPT ![u] =
                   IF keyboard = BotKeyboard THEN @ + 1
                   ELSE IF keyboard = ScheduleKeyboard THEN @ - 1 ELSE @]
    /\ last' = Handled(u, update, handler, outcome, reply)

\* An exception the handler does not catch: python-telegram-bot logs it and
\* keeps the conversation's state.
Raise(u, update, handler, error) ==
    /\ last' = Handled(u, update, handler, error, <<>>)
    /\ UNCHANGED <<conv, shown>>

SessionFields(u) == IF u \in DOMAIN user_data THEN DOMAIN user_data[u] ELSE {}

(***************************************************************************)
(* start: the main menu.  /start is an entry point only.                   *)
(***************************************************************************)
start(u) ==
    /\ conv[u] = END
    /\ Answer(u, "/start", "start", "ok", <<>>, END, StartKeyboard)
    /\ UNCHANGED <<now, user_data, channels_file, posts_file, jobs, running,
                   next_file, sent>>

(***************************************************************************)
(* check_scheduled_posts: the listing.                                     *)
(***************************************************************************)
\* sorted(posts, key=time, reverse=...): stable, an entry stays behind its equals
Before(a, b, reverse) ==
    IF reverse THEN StrLess(b.time, a.time) ELSE StrLess(a.time, b.time)

RECURSIVE Insert(_, _, _)
Insert(sorted, x, reverse) ==
    IF sorted = <<>> THEN <<x>>
    ELSE IF Before(x, Head(sorted), reverse) THEN <<x>> \o sorted
    ELSE <<Head(sorted)>> \o Insert(Tail(sorted), x, reverse)

RECURSIVE Sorted(_, _)
Sorted(posts, reverse) ==
    IF posts = <<>> THEN <<>>
    ELSE Insert(Sorted(SubSeq(posts, 1, Len(posts) - 1), reverse),
                posts[Len(posts)], reverse)

FirstN(s, n) == SubSeq(s, 1, IF Len(s) < n THEN Len(s) ELSE n)

IsPostedEntry(post, t) == Strptime(post.time) < t /\ post.status[1] = "Posted"
IsPendingEntry(post, t) == Strptime(post.time) >= t

\* (a faulty variant: the oldest entries instead of the latest)
OldestPosted(posted_posts) == FirstN(Sorted(posted_posts, FALSE), HistorySize)

RecentlyPosted(posted_posts) == FirstN(Sorted(posted_posts, TRUE), HistorySize)

\* strftime('%Y-%m-%d %H:%M') of the parsed time: the seconds are not shown
ShownTime(time) == <<time[1], time[2]>>

ListFor(scheduled_posts, t) ==
    LET posted_posts == SelectSeq(scheduled_posts, LAMBDA p : IsPostedEntry(p, t))
        pending_posts == SelectSeq(scheduled_posts, LAMBDA p : IsPendingEntry(p, t))
        recent == RecentlyPosted(posted_posts)
        pending == Sorted(pending_posts, FALSE)
    IN  [posted |-> [i \in 1..Len(recent) |->
                        <<recent[i].status, ShownTime(recent[i].time)>>],
         pending |-> [i \in 1..Len(pending) |-> ShownTime(pending[i].time)]]

check_scheduled_posts(u, t) ==
    /\ now' = t
    /\ Answer(u, "callback", "check_scheduled_posts", "ok",
              ListFor(Get(posts_file, u, <<>>), now'), END, CheckKeyboard)
    /\ UNCHANGED <<user_data, channels_file, posts_file, jobs, running,
                   next_file, sent>>

(***************************************************************************)
(* button_handler: every callback query outside SCHEDULE_OR_POST_NOW and   *)
(* SCHEDULE_TIME.  No keyboard carries 'cancel', so that branch is never   *)
(* taken.                                                                  *)
(***************************************************************************)
MenuKeyboard(data) ==
    CASE data = "manage_channels" -> ManageKeyboard
      [] data = "list_channels" -> ListChannelsKeyboard
      [] data = "help" -> HelpKeyboard
      [] data = "main_menu" -> StartKeyboard

SelectBot(u, data) ==
    IF u \in DOMAIN user_data
    THEN /\ user_data' = [user_data EXCEPT ![u] = Put(@, "bot_type", data)]
         /\ Answer(u, "callback", "button_handler", "ok", <<>>, SCHEDULE_OR_POST_NOW,
                   ScheduleKeyboard)
    ELSE /\ Raise(u, "callback", "button_handler", "KeyError")
         /\ UNCHANGED user_data

button_handler(u, data) ==
    /\ conv[u] \in {END, THUMBNAIL, VIDEO_LINK, BOT_SELECTION, CONFIRM_ANOTHER,
                    ADDING_CHANNEL}
    /\ data \in BotButtons => shown[u] > 0
    /\ data # "check_scheduled"
    /\ CASE data = "create_post" ->
              /\ Answer(u, "callback", "button_handler", "ok", <<>>, THUMBNAIL, {})
              /\ UNCHANGED user_data
         [] data = "add_channel" ->
              /\ Answer(u, "callback", "button_handler", "ok", <<>>, ADDING_CHANNEL, {})
              /\ UNCHANGED user_data
         [] data \in {"manage_channels", "help", "main_menu"} ->
              /\ Answer(u, "callback", "button_handler", "ok", <<>>, END, MenuKeyboard(data))
              /\ UNCHANGED user_data
         [] data = "list_channels" ->
              /\ IF CanLoad(channels_file)
                 THEN Answer(u, "callback", "button_handler", "ok", <<>>, END,
                             MenuKeyboard(data))
                 ELSE Raise(u, "callback", "button_handler", "JSONDecodeError")
              /\ UNCHANGED user_data
         [] data \in {"xrated", "nightrider"} -> SelectBot(u, data)
         [] OTHER ->
              /\ Answer(u, "callback", "button_handler", "ok", <<>>, END, {})
              /\ UNCHANGED user_data
    /\ UNCHANGED <<now, channels_file, posts_file, jobs, running, next_file, sent>>

check_scheduled(u, t) ==
    /\ conv[u] \in {END, THUMBNAIL, VIDEO_LINK, BOT_SELECTION, CONFIRM_ANOTHER,
                    ADDING_CHANNEL}
    /\ check_scheduled_posts(u, t)

(***************************************************************************)
(* thumbnail_received and video_link_received.                             *)
(***************************************************************************)
thumbnail_received(u, file_type) ==
    /\ conv[u] = THUMBNAIL
    /\ next_file <= MaxUploads
    /\ user_data' = Put(user_data, u,
                        [thumbnail_id |-> next_file, thumbnail_type |-> file_type])
    /\ next_file' = next_file + 1
    /\ Answer(u, "media", "thumbnail_received", "ok", <<>>, VIDEO_LINK, {})
    /\ UNCHANGED <<now, channels_file, posts_file, jobs, running, sent>>

\* A message that is no photo, video or animation (a text, a document), sent in
\* THUMBNAIL: the filter of the state's MessageHandler refuses it and /cancel and
\* the buttons are the only other handlers, so nothing handles it and the branch
\* of thumbnail_received that asks again is never reached.
not_a_thumbnail(u) ==
    /\ conv[u] = THUMBNAIL
    /\ last' = Handled(u, "text", "none", "ignored", <<>>)
    /\ UNCHANGED <<now, conv, user_data, channels_file, posts_file, jobs, running,
                   shown, next_file, sent>>

video_link_received(u, text) ==
    /\ conv[u] = VIDEO_LINK
    /\ IF u \in DOMAIN user_data
       THEN /\ user_data' = [user_data EXCEPT
                               ![u] = Put(@, "video_link", escape_markdown(text))]
            /\ Answer(u, "text", "video_link_received", "ok", <<>>, BOT_SELECTION,
                      BotKeyboard)
       ELSE /\ Raise(u, "text", "video_link_received", "KeyError")
            /\ UNCHANGED user_data
    /\ UNCHANGED <<now, channels_file, posts_file, jobs, running, next_file, sent>>

(***************************************************************************)
(* post_to_channels: "post now".  The loop attempts every channel of the   *)
(* user's list; outcome[c] tells whether the send to channel c succeeds.   *)
(***************************************************************************)
\* (a faulty variant: the loop ends at the first send that fails)
RECURSIVE SendUntilFailure(_, _, _, _)
SendUntilFailure(channel_list, outcome, success_channels, failed_channels) ==
    IF channel_list = <<>>
    THEN [success |-> success_channels, failed |-> failed_channels]
    ELSE IF outcome[Head(channel_list)]
    THEN SendUntilFailure(Tail(channel_list), outcome,
                          Append(success_channels, Head(channel_list)), failed_channels)
    ELSE [success |-> success_channels,
          failed |-> Append(failed_channels, Head(channel_list))]

RECURSIVE SendToEach(_, _, _, _)
SendToEach(channel_list, outcome, success_channels, failed_channels) ==
    IF channel_list = <<>>
    THEN [success |-> success_channels, failed |-> failed_channels]
    ELSE IF outcome[Head(channel_list)]
    THEN SendToEach(Tail(channel_list), outcome,
                    Append(success_channels, Head(channel_list)), failed_channels)
    ELSE SendToEach(Tail(channel_list), outcome,
                    success_channels, Append(failed_channels, Head(channel_list)))

post_to_channels(u, outcome) ==
    LET channel_list == Get(channels_file, u, <<>>)
        result == SendToEach(channel_list, outcome, <<>>, <<>>)
    IN  IF ~ CanLoad(channels_file)
        THEN /\ Raise(u, "callback", "post_to_channels", "JSONDecodeError")
             /\ UNCHANGED <<user_data, sent>>
        ELSE IF channel_list = <<>>
        THEN /\ Answer(u, "callback", "post_to_channels", "no_channels", <<>>, END, {})
             /\ UNCHANGED <<user_data, sent>>
        ELSE IF ~ ({"bot_type", "video_link"} \subseteq SessionFields(u))
        THEN /\ Raise(u, "callback", "post_to_channels", "KeyError")
             /\ UNCHANGED <<user_data, sent>>
        ELSE /\ Answer(u, "callback", "post_to_channels", "ok", result, END,
                       PostedKeyboard)
             /\ sent' = Put(sent, user_data[u].thumbnail_id,
                            Get(sent, user_data[u].thumbnail_id, 0) + 1)
             /\ user_data' = Pop(user_data, u)

schedule_or_post_now(u, data, outcome) ==
    /\ conv[u] = SCHEDULE_OR_POST_NOW
    /\ data \in {"post_now", "schedule"}
    /\ IF data = "post_now"
       THEN post_to_channels(u, outcome)
       ELSE /\ Answer(u, "callback", "schedule_or_post_now", "ok", <<>>, SCHEDULE_TIME, {})
            /\ UNCHANGED <<user_data, sent>>
    /\ UNCHANGED <<now, channels_file, posts_file, jobs, running, next_file>>

(***************************************************************************)
(* schedule_time_received.                                                 *)
(***************************************************************************)
Pending == <<"Pending", 0, 0>>
Posted(success, total) == <<"Posted", success, total>>

\* (a faulty variant: the date never rolls forward)
ScheduleDatetimeToday(schedule_time, t) == Combine(t, schedule_time)

\* lines 560-566: today's date with the given time, a day later when past
ScheduleDatetime(schedule_time, t) ==
    LET schedule_datetime == Combine(t, schedule_time)
    IN  IF schedule_datetime < t THEN schedule_datetime + TicksPerDay
        ELSE schedule_datetime

PostData(u, schedule_datetime) ==
    [time |-> Strftime(schedule_datetime),
     thumbnail_id |-> user_data[u].thumbnail_id,
     thumbnail_type |-> user_data[u].thumbnail_type,
     video_link |-> user_data[u].video_link,
     bot_type |-> user_data[u].bot_type,
     tutorial_link |-> BOT_TUTORIALS[user_data[u].bot_type],
     status |-> Pending,
     channels |-> Get(channels_file, u, <<>>),
     user_id |-> u]

AddJob(run_date, post_data) == Append(jobs, [run_date |-> run_date, args |-> post_data])

schedule_time_received(u, user_time, t) ==
    /\ conv[u] = SCHEDULE_TIME
    /\ IF ~ ValidTime(user_time)
       THEN /\ Answer(u, "text", "schedule_time_received", "ValueError", <<>>,
                      SCHEDULE_TIME, {})
            /\ UNCHANGED <<now, posts_file, jobs>>
       ELSE /\ now' = t
            /\ IF ~ CanLoad(channels_file)
               THEN /\ Answer(u, "text", "schedule_time_received", "ValueError", <<>>,
                              SCHEDULE_TIME, {})
                    /\ UNCHANGED <<posts_file, jobs>>
               ELSE IF ~ ({"bot_type", "thumbnail_id", "thumbnail_type", "video_link"}
                        \subseteq SessionFields(u))
               THEN /\ Raise(u, "text", "schedule_time_received", "KeyError")
                    /\ UNCHANGED <<posts_file, jobs>>
               ELSE LET schedule_datetime == ScheduleDatetime(user_time, now')
                        post_data == PostData(u, schedule_datetime)
                    IN  /\ Len(Get(posts_file, u, <<>>)) < MaxPosts
                        /\ posts_file' = Put(posts_file, u,
                                 Append(Get(posts_file, u, <<>>), post_data))
                        /\ jobs' = AddJob(schedule_datetime, post_data)
                        /\ Answer(u, "text", "schedule_time_received", "ok",
                                  Strftime(schedule_datetime), CONFIRM_ANOTHER,
                                  ScheduledKeyboard)
    /\ UNCHANGED <<user_data, channels_file, running, next_file, sent>>

(***************************************************************************)
(* cancel.  The /cancel command reaches it from every state but two: with  *)
(* no conversation running nothing handles the command (the entry points   *)
(* are /start and the buttons), and in ADDING_CHANNEL the text filter of   *)
(* add_channel, listed first, takes it.                                    *)
(***************************************************************************)
cancel(u) ==
    /\ conv[u] \notin {END, ADDING_CHANNEL}
    /\ user_data' = Pop(user_data, u)
    /\ Answer(u, "/cancel", "cancel", "ok", <<>>, END, {})
    /\ UNCHANGED <<now, channels_file, posts_file, jobs, running, next_file, sent>>

cancel_unhandled(u) ==
    /\ conv[u] = END
    /\ last' = Handled(u, "/cancel", "none", "ignored", <<>>)
    /\ UNCHANGED <<now, conv, user_data, channels_file, posts_file, jobs, running,
                   shown, next_file, sent>>

(***************************************************************************)
(* add_channel.  int(message.text) and str() of it: the texts of the model *)
(* and the numbers they denote.                                            *)
(***************************************************************************)
Kind(text) == IF text = "/cancel" THEN "/cancel" ELSE "text"
IsInt(text) == text \in {"-1001", "-01001"}
IntOf(text) == IF text \in {"-1001", "-01001"} THEN -1001 ELSE 0
StrOf(n) == IF n = -1001 THEN "-1001" ELSE "0"

\* (a faulty variant: the id is appended without looking for it in the list)
RegisterAgain(u, channel_id) ==
    LET channels == IF u \in DOMAIN channels_file THEN channels_file
                    ELSE Put(channels_file, u, <<>>)
    IN  [channels EXCEPT ![u] = Append(@, channel_id)]

Register(u, channel_id) ==
    LET channels == IF u \in DOMAIN channels_file THEN channels_file
                    ELSE Put(channels_file, u, <<>>)
    IN  IF ~ Contains(channels[u], channel_id)
        THEN [channels EXCEPT ![u] = Append(@, channel_id)]
        ELSE channels_file

\* (a faulty variant: the id is registered whatever the check of the bot's rights says)
add_channel_unchecked(u, text, access) ==
    /\ conv[u] = ADDING_CHANNEL
    /\ IF ~ IsInt(text)
       THEN /\ Answer(u, Kind(text), "add_channel", "ValueError", <<>>, ADDING_CHANNEL, {})
            /\ UNCHANGED channels_file
       ELSE IF ~ CanLoad(channels_file)
       THEN /\ Answer(u, Kind(text), "add_channel", "error", <<>>, END,
                      AddChannelKeyboard)
            /\ UNCHANGED channels_file
       ELSE /\ channels_file' = Register(u, StrOf(IntOf(text)))
            /\ Answer(u, Kind(text), "add_channel",
                      IF Contains(Get(channels_file, u, <<>>), StrOf(IntOf(text)))
                      THEN "already" ELSE "added",
                      <<>>, END, AddChannelKeyboard)
    /\ UNCHANGED <<now, user_data, posts_file, jobs, running, next_file, sent>>

add_channel(u, text, access) ==
    /\ conv[u] = ADDING_CHANNEL
    /\ IF ~ IsInt(text)
       THEN /\ Answer(u, Kind(text), "add_channel", "ValueError", <<>>, ADDING_CHANNEL, {})
            /\ UNCHANGED channels_file
       ELSE IF access # "can_post"
       THEN /\ Answer(u, Kind(text), "add_channel", access, <<>>, ADDING_CHANNEL, {})
            /\ UNCHANGED channels_file
       ELSE IF ~ CanLoad(channels_file)
       THEN /\ Answer(u, Kind(text), "add_channel", "error", <<>>, END,
                      AddChannelKeyboard)
            /\ UNCHANGED channels_file
       ELSE /\ channels_file' = Register(u, StrOf(IntOf(text)))
            /\ Answer(u, Kind(text), "add_channel",
                      IF Contains(Get(channels_file, u, <<>>), StrOf(IntOf(text)))
                      THEN "already" ELSE "added",
                      <<>>, END, AddChannelKeyboard)
    /\ UNCHANGED <<now, user_data, posts_file, jobs, running, next_file, sent>>

(***************************************************************************)
(* A restart of the process: the module's dict, the conversations, the job *)
(* store and the running coroutines are lost, the two files and the chat's *)
(* messages stay.                                                          *)
(***************************************************************************)
Restart ==
    /\ conv' = [u \in Users |-> END]
    /\ user_data' = EmptyDict
    /\ jobs' = <<>>
    /\ running' = <<>>
    /\ last' = NoUpdate
    /\ UNCHANGED <<now, channels_file, posts_file, shown, next_file, sent>>

(***************************************************************************)
(* post_scheduled, one step per await.                                     *)
(***************************************************************************)
Remove(s, i) == SubSeq(s, 1, i - 1) \o SubSeq(s, i + 1, Len(s))

\* (a faulty variant: the entries of the job's time leave the owner's list)
MarkPostedAndDrop(scheduled_posts, post_data, success_channels) ==
    IF post_data.user_id \in DOMAIN scheduled_posts
    THEN [scheduled_posts EXCEPT ![post_data.user_id] =
            SelectSeq(@, LAMBDA post : post.time # post_data.time)]
    ELSE scheduled_posts

\* (a faulty variant: the list saved is the one read when the post was scheduled,
\* the entries up to the job's own, so that later appends are overwritten)
MarkPostedStale(scheduled_posts, post_data, success_channels) ==
    IF post_data.user_id \in DOMAIN scheduled_posts
    THEN [scheduled_posts EXCEPT ![post_data.user_id] =
            LET own == {i \in 1..Len(@) : [@[i] EXCEPT !.status = Pending] = post_data}
                read == IF own = {} THEN Len(@)
                        ELSE CHOOSE i \in own : \A j \in own : i <= j
            IN  [i \in 1..read |->
                    IF @[i].time = post_data.time
                    THEN [@[i] EXCEPT !.status =
                            Posted(Len(success_channels), Len(post_data.channels))]
                    ELSE @[i]]]
    ELSE scheduled_posts

\* lines 687-694: the status of every entry of the owner with the job's time
MarkPosted(scheduled_posts, post_data, success_channels) ==
    IF post_data.user_id \in DOMAIN scheduled_posts
    THEN [scheduled_posts EXCEPT ![post_data.user_id] =
            [i \in 1..Len(@) |->
                IF @[i].time = post_data.time
                THEN [@[i] EXCEPT !.status =
                        Posted(Len(success_channels), Len(post_data.channels))]
                ELSE @[i]]]
    ELSE scheduled_posts

\* (a faulty variant: the job sends to the owner's list as it is when it fires)
FireLive(i) ==
    /\ i \in 1..Len(jobs)
    /\ jobs[i].run_date <= MaxNow
    /\ now' = IF jobs[i].run_date > now THEN jobs[i].run_date ELSE now
    /\ jobs' = Remove(jobs, i)
    /\ LET live == Get(channels_file, jobs[i].args.user_id, <<>>)
           post_data == [jobs[i].args EXCEPT !.channels = live]
       IN  IF live = <<>>
           THEN /\ posts_file' = MarkPosted(posts_file, post_data, <<>>)
                /\ UNCHANGED running
           ELSE /\ running' = Append(running, [post_data |-> post_data, next |-> 1,
                                               success |-> <<>>, failed |-> <<>>,
                                               pc |-> "send"])
                /\ UNCHANGED posts_file
    /\ UNCHANGED <<conv, user_data, channels_file, shown, next_file, sent, last>>

\* (a faulty variant: the job stays in the store after it fired)
FireAndKeep(i) ==
    /\ i \in 1..Len(jobs)
    /\ jobs[i].run_date <= MaxNow
    /\ now' = IF jobs[i].run_date > now THEN jobs[i].run_date ELSE now
    /\ jobs' = jobs
    /\ Len(running) < MaxPosts
    /\ running' = Append(running, [post_data |-> jobs[i].args, next |-> 1,
                                   success |-> <<>>, failed |-> <<>>,
                                   pc |-> IF jobs[i].args.channels = <<>>
                                          THEN "notify" ELSE "send"])
    /\ UNCHANGED <<conv, user_data, channels_file, posts_file, shown, next_file,
                   sent, last>>

\* The scheduler starts the coroutine of a job once its run_date is reached: at
\* run_date, or right away when that instant has passed.
Fire(i) ==
    /\ i \in 1..Len(jobs)
    /\ jobs[i].run_date <= MaxNow
    /\ now' = IF jobs[i].run_date > now THEN jobs[i].run_date ELSE now
    /\ jobs' = Remove(jobs, i)
    /\ IF jobs[i].args.channels = <<>>
       THEN /\ posts_file' = MarkPosted(posts_file, jobs[i].args, <<>>)
            /\ UNCHANGED running
       ELSE /\ running' = Append(running, [post_data |-> jobs[i].args, next |-> 1,
                                           success |-> <<>>, failed |-> <<>>,
                                           pc |-> "send"])
            /\ UNCHANGED posts_file
    /\ UNCHANGED <<conv, user_data, channels_file, shown, next_file, sent, last>>

\* (a faulty variant: a send that raises ends the coroutine, as if the loop did
\* not catch it, and the status is not written)
SendOrAbort(k, ok) ==
    /\ k \in 1..Len(running)
    /\ running[k].pc = "send"
    /\ LET r == running[k]
           success_channels == Append(r.success, r.post_data.channels[r.next])
       IN  IF ~ ok
           THEN /\ running' = Remove(running, k)
                /\ UNCHANGED posts_file
           ELSE IF r.next < Len(r.post_data.channels)
           THEN /\ running' = [running EXCEPT ![k] =
                                 [r EXCEPT !.next = @ + 1,
                                           !.success = success_channels]]
                /\ UNCHANGED posts_file
           ELSE /\ posts_file' = MarkPosted(posts_file, r.post_data, success_channels)
                /\ running' = [running EXCEPT ![k] =
                                 [r EXCEPT !.next = @ + 1,
                                           !.success = success_channels,
                                           !.pc = "notify"]]
    /\ UNCHANGED <<now, conv, user_data, channels_file, jobs, shown, next_file,
                   sent, last>>

\* the send to the channel at r.next returns, or raises
SendReturns(k, ok) ==
    /\ k \in 1..Len(running)
    /\ running[k].pc = "send"
    /\ LET r == running[k]
           channel_id == r.post_data.channels[r.next]
           success_channels == IF ok THEN Append(r.success, channel_id) ELSE r.success
           failed_channels == IF ok THEN r.failed ELSE Append(r.failed, channel_id)
       IN  IF r.next < Len(r.post_data.channels)
           THEN /\ running' = [running EXCEPT ![k] =
                                 [r EXCEPT !.next = @ + 1,
                                           !.success = success_channels,
                                           !.failed = failed_channels]]
                /\ UNCHANGED posts_file
           ELSE /\ posts_file' = MarkPosted(posts_file, r.post_data, success_channels)
                /\ running' = [running EXCEPT ![k] =
                                 [r EXCEPT !.next = @ + 1,
                                           !.success = success_channels,
                                           !.failed = failed_channels,
                                           !.pc = "notify"]]
    /\ UNCHANGED <<now, conv, user_data, channels_file, jobs, shown, next_file,
                   sent, last>>

\* send_message to the owner returns or raises (logged): the coroutine ends
NotifyReturns(k) ==
    /\ k \in 1..Len(running)
    /\ running[k].pc = "notify"
    /\ running' = Remove(running, k)
    /\ UNCHANGED <<now, conv, user_data, channels_file, posts_file, jobs, shown,
                   next_file, sent, last>>

\* A reading of the clock is later than every earlier step.
Later == (now + 1)..MaxNow

\* an update of a user reaches the handler the conversation's state selects
Updates ==
    \E u \in Users :
        \/ start(u)
        \/ \E data \in Pressed : button_handler(u, data)
        \/ \E t \in Later : check_scheduled(u, t)
        \/ \E file_type \in ThumbnailTypes : thumbnail_received(u, file_type)
        \/ not_a_thumbnail(u)
        \/ \E text \in LinkTexts : video_link_received(u, text)
        \/ \E data \in Pressed, outcome \in [ChannelIds -> BOOLEAN] :
              schedule_or_post_now(u, data, outcome)
        \/ \E user_time \in TimeTexts, t \in Later :
              schedule_time_received(u, user_time, t)
        \/ cancel(u)
        \/ cancel_unhandled(u)
        \/ \E text \in ChannelTexts, access \in AccessResults :
              add_channel(u, text, access)

\* the scheduler and the coroutines of the jobs it started
JobSteps ==
    \/ \E i \in 1..MaxPosts : Fire(i)
    \/ \E k \in 1..MaxPosts, ok \in BOOLEAN : SendReturns(k, ok)
    \/ \E k \in 1..MaxPosts : NotifyReturns(k)

Next == Updates \/ Restart \/ JobSteps

Spec == Init /\ [][Next]_vars

(***************************************************************************)
(* C1.  The instant a post is scheduled for.                               *)
(***************************************************************************)
Scheduled(u) == Len(Get(posts_file', u, <<>>)) = Len(Get(posts_file, u, <<>>)) + 1
NewPost(u) == posts_file'[u][Len(posts_file'[u])]

Outcomes(channel_list, success_channels, failed_channels) ==
    /\ Len(success_channels) + Len(failed_channels) = Len(channel_list)
    /\ \A c \in ChannelIds :
          Count(success_channels, c) + Count(failed_channels, c) = Count(channel_list, c)

PostedNow == last.handler = "post_to_channels" /\ last.outcome = "ok"

\* C2: in every broadcast, post-now and scheduled, each channel of the list is
\* attempted once and gets one outcome, ok or failed: successes plus failures
\* equal the channels attempted, whatever sends failed before.  For post-now the
\* reply reports the whole list; a scheduled broadcast has an outcome for every
\* channel before the one it is sending to, and for the whole list once its loop
\* has ended.
C2_EveryChannelOneOutcome ==
    /\ PostedNow =>
          Outcomes(channels_file[last.user], last.reply.success, last.reply.failed)
    /\ \A k \in 1..Len(running) :
          LET r == running[k]
          IN  /\ r.next \in 1..(Len(r.post_data.channels) + 1)
              /\ r.pc = "notify" <=> r.next = Len(r.post_data.channels) + 1
              /\ Outcomes(SubSeq(r.post_data.channels, 1, r.next - 1),
                          r.success, r.failed)

\* a post-now broadcast to two channels whose first send failed and whose second
\* succeeded, and a scheduled one in the same case
C2_SecondSentAfterFailure ==
    /\ PostedNow
    /\ Len(channels_file[last.user]) = 2
    /\ last.reply.failed = <<channels_file[last.user][1]>>
    /\ last.reply.success = <<channels_file[last.user][2]>>

(***************************************************************************)
(* C3.  The status of a stored post.                                       *)
(***************************************************************************)
\* C3: once a stored post is Posted(s, t) its status never changes again: no
\* later status update for the same owner and fireAt, the firing of another job
\* with that owner and fireAt included, touches it.
C3_PostedStatusFinal ==
    [][\A u \in DOMAIN posts_file : \A i \in 1..Len(posts_file[u]) :
          posts_file[u][i].status[1] = "Posted"
          => /\ u \in DOMAIN posts_file'
             /\ i <= Len(posts_file'[u])
             /\ posts_file'[u][i].status = posts_file[u][i].status]_vars

(***************************************************************************)
(* C4.  The session after scheduling.                                      *)
(***************************************************************************)
ScheduledNow == last.handler = "schedule_time_received" /\ last.outcome = "ok"

\* C4: after a valid HH:MM is accepted (the post appended, the job registered)
\* the user has no session and the conversation is back in Idle.
C4_SessionGoneAfterScheduling ==
    ScheduledNow => conv[last.user] = END /\ last.user \notin DOMAIN user_data

(***************************************************************************)
(* C5.  One dispatch per session.                                          *)
(***************************************************************************)
StoredFrom(thumbnail_id) ==
    LET AllOf(u) == SelectSeq(posts_file[u], LAMBDA p : p.thumbnail_id = thumbnail_id)
        RECURSIVE Sum(_)
        Sum(owners) == IF owners = {} THEN 0
                       ELSE LET u == CHOOSE x \in owners : TRUE
                            IN  Len(AllOf(u)) + Sum(owners \ {u})
    IN  Sum(DOMAIN posts_file)

\* C5: a session is dispatched at most once: the broadcasts made and the posts
\* stored from the session of one thumbnail submission are never more than one.
C5_OneDispatchPerSession ==
    \A thumbnail_id \in 1..MaxUploads :
        StoredFrom(thumbnail_id) + Get(sent, thumbnail_id, 0) <= 1

(***************************************************************************)
(* C6.  The session after post-now.                                        *)
(***************************************************************************)
\* C6: handling post-now always ends with the conversation in Idle and without
\* a session of the user, for every channel list and every outcome of the sends.
C6_SessionGoneAfterPostNow ==
    last.handler = "post_to_channels"
    => conv[last.user] = END /\ last.user \notin DOMAIN user_data

(***************************************************************************)
(* C7.  A session that is missing or incomplete.                           *)
(***************************************************************************)
\* C7: post-now and a schedule time handled with a session that is missing or
\* lacks a field end in a reported "session expired" and Idle: the handler never
\* fails with an error nothing catches.
C7_NoUnhandledError ==
    last.handler \in {"post_to_channels", "schedule_time_received"}
    => last.outcome # "KeyError"

(***************************************************************************)
(* C8, C9.  The listing.                                                   *)
(***************************************************************************)
Listed == last.handler = "check_scheduled_posts"
StoredPosts == Get(posts_file, last.user, <<>>)

\* C8: the listing of an owner contains every stored entry of the owner whose
\* status is Pending, whatever its fireAt is to the current time.
C8_EveryPendingListed ==
    Listed => \A i \in 1..Len(StoredPosts) :
                 StoredPosts[i].status = Pending
                 => Contains(last.reply.pending, ShownTime(StoredPosts[i].time))

\* what is stored before the process starts: up to MaxListed posts of a user, a
\* Posted one due by the instant of the start, a Pending one due by then (its job
\* lost) or the day after
StoredTimes == {Combine(0, 0), Combine(0, 1), Combine(TicksPerDay, 0)}
StartInstant == Combine(0, 1)
StoredPost(u, t, status) ==
    [time |-> Strftime(t), thumbnail_id |-> 1, thumbnail_type |-> "photo",
     video_link |-> <<"a">>, bot_type |-> "xrated",
     tutorial_link |-> BOT_TUTORIALS["xrated"], status |-> status,
     channels |-> <<"-1001">>, user_id |-> u]
StoredEntries(u) ==
    {StoredPost(u, t, Posted(1, 1)) : t \in {x \in StoredTimes : x <= StartInstant}}
    \cup {StoredPost(u, t, Pending) : t \in {x \in StoredTimes : x >= StartInstant}}
StoredLists(u) == UNION {[1..n -> StoredEntries(u)] : n \in 0..MaxListed}

InitList ==
    /\ now = StartInstant
    /\ conv = [u \in Users |-> END]
    /\ user_data = EmptyDict
    /\ channels_file = EmptyDict
    /\ \E u \in Users : \E posts \in StoredLists(u) :
          posts_file = IF posts = <<>> THEN EmptyDict ELSE (u :> posts)
    /\ jobs = <<>>
    /\ running = <<>>
    /\ shown = [u \in Users |-> 0]
    /\ next_file = 1
    /\ sent = <<>>
    /\ last = NoUpdate

NextList == \E u \in Users, t \in Later : check_scheduled(u, t)

SpecList == InitList /\ [][NextList]_vars

PostedStored == SelectSeq(StoredPosts, LAMBDA p : p.status[1] = "Posted")
ShownOf(post) == <<post.status, ShownTime(post.time)>>
ShownLater(a, b) == a[1] > b[1] \/ (a[1] = b[1] /\ a[2] > b[2])
Times(s, x) == Cardinality({i \in 1..Len(s) : s[i] = x})

\* C9: the listing shows at most 5 Posted entries (all of them when 5 or fewer
\* are stored), latest fireAt first, and they are the ones with the latest
\* fireAt: each shown line is a stored Posted entry, and every stored Posted entry
\* later than the last line shown is shown; the listing leaves the stored posts
\* as they are.
C9_LatestFivePosted ==
    /\ [](Listed =>
          LET recent == last.reply.posted
              stored == [i \in 1..Len(PostedStored) |-> ShownOf(PostedStored[i])]
          IN  /\ Len(recent) <= HistorySize
              /\ Len(recent) = IF Len(stored) < HistorySize THEN Len(stored)
                               ELSE HistorySize
              /\ \A i, j \in 1..Len(recent) :
                     i < j => ~ ShownLater(recent[j][2], recent[i][2])
              /\ \A i \in 1..Len(recent) :
                     Times(recent, recent[i]) <= Times(stored, recent[i])
              /\ \A i \in 1..Len(stored) :
                     ShownLater(stored[i][2], recent[Len(recent)][2])
                     => Times(recent, stored[i]) = Times(stored, stored[i]))
    /\ [][\A u \in Users, t \in Later :
             check_scheduled(u, t) => posts_file' = posts_file]_vars

\* a listing of more than 5 stored Posted entries of different fireAt
C9_MoreThanFivePosted ==
    /\ Listed
    /\ Len(PostedStored) > HistorySize
    /\ Len(last.reply.posted) = HistorySize
    /\ \E i, j \in 1..Len(PostedStored) :
          PostedStored[i].time # PostedStored[j].time
    /\ last.reply.posted[1][2] # last.reply.posted[HistorySize][2]

(***************************************************************************)
(* C10.  Cancel.                                                           *)
(***************************************************************************)
\* C10: after a /cancel of the user, in whatever conversation state it came, the
\* user has no session and the conversation is in Idle.
C10_CancelEndsEverything ==
    last.update = "/cancel"
    => conv[last.user] = END /\ last.user \notin DOMAIN user_data

(***************************************************************************)
(* C11.  A post whose job a restart lost.                                  *)
(***************************************************************************)
JobFor(job_store, post) ==
    \E i \in 1..Len(job_store) : job_store[i].args = [post EXCEPT !.status = Pending]
RunningFor(coroutines, post) ==
    \E k \in 1..Len(coroutines) :
        coroutines[k].post_data = [post EXCEPT !.status = Pending]

\* a stored post that is Pending and not yet due, with no job and no coroutine
\* of its own: a restart lost its job before its fire time
LostBeforeFire(u, i) ==
    /\ posts_file[u][i].status = Pending
    /\ Strptime(posts_file[u][i].time) > now
    /\ ~ JobFor(jobs, posts_file[u][i])
    /\ ~ RunningFor(running, posts_file[u][i])

\* C11: a post scheduled before a restart that came before its fire time is
\* never delivered after the restart (no job and no broadcast of it appears
\* again), and its stored status stays Pending in every later state.
C11_LostPostStaysPending ==
    [][\A u \in DOMAIN posts_file : \A i \in 1..Len(posts_file[u]) :
          LostBeforeFire(u, i)
          => /\ posts_file'[u][i].status = Pending
             /\ ~ JobFor(jobs', posts_file[u][i])
             /\ ~ RunningFor(running', posts_file[u][i])]_vars

(***************************************************************************)
(* C12.  The firing of a job, while the process keeps running.             *)
(***************************************************************************)
\* the process is not restarted, and the scheduler, started by main, runs every
\* job that is due
NextRun == Updates \/ JobSteps
SpecRun == Init /\ [][NextRun]_vars /\ \A i \in 1..MaxPosts : WF_vars(Fire(i))

Due(job) == job.run_date <= MaxNow
Broadcasts(coroutines, post_data) ==
    Cardinality({k \in 1..Len(coroutines) : coroutines[k].post_data = post_data})
JobsOf(job_store, job) ==
    Cardinality({i \in 1..Len(job_store) : job_store[i] = job})

Sending(coroutines, post) ==
    \E k \in 1..Len(coroutines) :
        /\ coroutines[k].post_data = [post EXCEPT !.status = Pending]
        /\ coroutines[k].pc = "send"

\* C13: a stored entry is Posted only after every channel attempt of its own
\* job has completed: no entry with channels to send to is Posted while its job
\* has not yet started or a send of its broadcast is still outstanding, also when
\* jobs of one owner interleave.
C13_PostedAfterOwnSends ==
    \A u \in DOMAIN posts_file : \A i \in 1..Len(posts_file[u]) :
        posts_file[u][i].status[1] = "Posted" /\ posts_file[u][i].channels # <<>>
        => /\ ~ JobFor(jobs, posts_file[u][i])
           /\ ~ Sending(running, posts_file[u][i])

(***************************************************************************)
(* C14.  The channels of a scheduled job.                                  *)
(***************************************************************************)
StoredAs(post_data) ==
    \E j \in 1..Len(Get(posts_file, post_data.user_id, <<>>)) :
        [posts_file[post_data.user_id][j] EXCEPT !.status = Pending] = post_data

\* C14: a scheduled job broadcasts to the channel list its owner had at the
\* moment of scheduling.  The stored post and its job take the list of that
\* moment; a later change of the registry changes no stored post, no job and no
\* running broadcast; nothing but the status of a stored post ever changes; and
\* every job, waiting or sending, carries the list of its stored post and sends
\* to channels of that list only.
C14_ChannelsOfSchedulingTime ==
    /\ [][\A u \in Users :
             Scheduled(u)
             => /\ NewPost(u).channels = Get(channels_file, u, <<>>)
                /\ jobs'[Len(jobs')].args = NewPost(u)]_vars
    /\ [][channels_file' # channels_file
             => jobs' = jobs /\ running' = running /\ posts_file' = posts_file]_vars
    /\ [][\A u \in DOMAIN posts_file : \A i \in 1..Len(posts_file[u]) :
             [posts_file'[u][i] EXCEPT !.status = Pending]
                = [posts_file[u][i] EXCEPT !.status = Pending]]_vars
    /\ [](/\ \A i \in 1..Len(jobs) : StoredAs(jobs[i].args)
          /\ \A k \in 1..Len(running) :
                /\ StoredAs(running[k].post_data)
                /\ \A c \in ChannelIds :
                      Contains(running[k].success, c) \/ Contains(running[k].failed, c)
                      => Contains(running[k].post_data.channels, c))

\* a job has sent to every channel of its list while its owner's registry holds
\* a channel registered after the scheduling
C14_RegisteredAfterScheduling ==
    \E k \in 1..Len(running) :
        /\ running[k].pc = "notify"
        /\ Len(running[k].success) + Len(running[k].failed)
              = Len(running[k].post_data.channels)
        /\ running[k].post_data.channels # <<>>
        /\ Len(Get(channels_file, running[k].post_data.user_id, <<>>))
              > Len(running[k].post_data.channels)

(***************************************************************************)
(* C15, C16.  The registration of a channel.                               *)
(***************************************************************************)
ChannelsOf(file, u) == IF CanLoad(file) THEN Get(file, u, <<>>) ELSE <<>>
Accepted(text, access) == IsInt(text) /\ access = "can_post" /\ CanLoad(channels_file)

\* C15: registering a channel id that is already in the user's list reports
\* "already present" and leaves the stored lists as they are, a new id goes to
\* the end of the user's list, and no list ever holds an id twice.
C15_RegisterIdempotent ==
    /\ [](\A u \in Users, c \in ChannelIds : Count(ChannelsOf(channels_file, u), c) <= 1)
    /\ [][\A u \in Users, text \in ChannelTexts, access \in AccessResults :
             add_channel(u, text, access) /\ Accepted(text, access)
             => IF Contains(ChannelsOf(channels_file, u), StrOf(IntOf(text)))
                THEN channels_file' = channels_file /\ last'.outcome = "already"
                ELSE /\ ChannelsOf(channels_file', u)
                          = Append(ChannelsOf(channels_file, u), StrOf(IntOf(text)))
                     /\ last'.outcome = "added"]_vars

\* a user with two channels has sent the id of one of them again
C15_SentAgain ==
    /\ last.handler = "add_channel"
    /\ last.outcome = "already"
    /\ Len(ChannelsOf(channels_file, last.user)) = 2

\* C16: a registration is refused, the stored lists unchanged and the user asked
\* again, whenever the check reports the channel unreachable or the bot without
\* the right to post; a stored list changes only by a registration whose check
\* succeeded with the right to post.
C16_RefusedWithoutAccess ==
    /\ [][\A u \in Users, text \in ChannelTexts, access \in AccessResults :
             add_channel(u, text, access) /\ access # "can_post"
             => /\ channels_file' = channels_file
                /\ conv'[u] = ADDING_CHANNEL
                /\ last'.outcome \in {access, "ValueError"}]_vars
    /\ [][channels_file' # channels_file
             => \E u \in Users, text \in ChannelTexts :
                   /\ add_channel(u, text, "can_post")
                   /\ IsInt(text)
                   /\ last'.outcome = "added"]_vars

\* a channel id was sent whose check failed
C16_CheckFailed ==
    /\ last.handler = "add_channel"
    /\ last.outcome \in {"no_permission", "unreachable"}
    /\ conv[last.user] = ADDING_CHANNEL

(***************************************************************************)
(* C17.  Input errors.                                                     *)
(***************************************************************************)
InputError(u) ==
    \/ not_a_thumbnail(u)
    \/ \E user_time \in TimeTexts, t \in Later :
          schedule_time_received(u, user_time, t) /\ ~ ValidTime(user_time)
    \/ \E text \in ChannelTexts, access \in AccessResults :
          add_channel(u, text, access) /\ ~ IsInt(text)

\* C17: every input error (a message that is no media in AwaitingThumbnail, a
\* time text that does not parse in AwaitingScheduleTime, a channel id that is no
\* number in AddingChannel) is answered with a prompt to try again and leaves the
\* conversation in its state, the session, the registry, the stored posts and
\* the jobs unchanged.
C17_InputErrorAsksAgain ==
    [][\A u \in Users :
          InputError(u)
          => /\ last'.handler # "none"
             /\ conv' = conv
             /\ UNCHANGED <<user_data, channels_file, posts_file, jobs>>]_vars

(***************************************************************************)
(* C18.  The message that ends a flow.                                     *)
(***************************************************************************)
\* C18: every completed post-now and every fired job, whatever its channel list
\* (an empty one included) and whatever the sends did, ends with a status message
\* to the user: a post-now that went through is answered, a fired job goes on to
\* the notification of its owner, and a job's coroutine ends in no other way
\* while the process runs.
C18_NoSilentCompletion ==
    /\ [](last.handler = "post_to_channels" /\ last.outcome \in {"ok", "no_channels"}
            => conv[last.user] = END)
    /\ [][\A i \in 1..Len(jobs) :
             Fire(i) => /\ Len(running') = Len(running) + 1
                        /\ running'[Len(running')].post_data = jobs[i].args]_vars
    /\ [][Len(running') < Len(running)
             => Restart \/ \E k \in 1..Len(running) : NotifyReturns(k)]_vars

(***************************************************************************)
(* C19.  A store that cannot be read.                                      *)
(***************************************************************************)
\* C19: the read of a channels.json that cannot be parsed yields the empty
\* state and the operation goes on as with nothing stored: the read makes no
\* handler fail, post-now reports that no channel is registered, and the time
\* of a complete draft is accepted.
C19_UnreadableStoreReadsEmpty ==
    ~ CanLoad(channels_file)
    => /\ last.outcome \notin {"JSONDecodeError", "error"}
       /\ last.handler = "post_to_channels" => last.outcome = "no_channels"
       /\ (/\ last.handler = "schedule_time_received"
           /\ {"bot_type", "video_link"} \subseteq SessionFields(last.user))
          => last.outcome = "ok"

(***************************************************************************)
(* C20.  The session and the idle conversation.                            *)
(***************************************************************************)
\* C20: a session exists only between a thumbnail and the dispatch or the
\* cancellation that follows it: a user whose conversation is Idle has no
\* session.
C20_NoSessionWhenIdle ==
    \A u \in Users : conv[u] = END => u \notin DOMAIN user_data

(***************************************************************************)
(* C21.  The jobs of one owner and one fire time.                          *)
(***************************************************************************)
\* C21: the scheduler never holds two jobs of the same owner with the same
\* fireAt: scheduling again for an owner and a fireAt that already has a job
\* registers no second job.
C21_OneJobPerOwnerAndTime ==
    \A i, j \in 1..Len(jobs) :
        /\ jobs[i].args.user_id = jobs[j].args.user_id
        /\ jobs[i].run_date = jobs[j].run_date
        => i = j

(***************************************************************************)
(* C22.  What a stored post keeps.                                         *)
(***************************************************************************)
Content(post) == [post EXCEPT !.status = Pending]

\* C22: a stored post keeps its place in the owner's sequence and all its
\* fields but the status: no step (append, status update, listing, cancel,
\* restart) removes or reorders an entry or changes its fireAt, thumbnail, link,
\* variant, tutorial link, channels or owner.
C22_OnlyStatusChanges ==
    [][\A u \in DOMAIN posts_file :
          /\ u \in DOMAIN posts_file'
          /\ Len(posts_file'[u]) >= Len(posts_file[u])
          /\ \A i \in 1..Len(posts_file[u]) :
                Content(posts_file'[u][i]) = Content(posts_file[u][i])]_vars

\* after two appends, a cancel and a status update the owner's first post is
\* still first and Posted, the second still second and Pending
C22_FirstPostedSecondPending ==
    /\ last.handler = "cancel"
    /\ Len(Get(posts_file, last.user, <<>>)) = 2
    /\ posts_file[last.user][1].status[1] = "Posted"
    /\ posts_file[last.user][2].status = Pending
    /\ posts_file[last.user][1].thumbnail_id = 1
    /\ posts_file[last.user][2].thumbnail_id = 2

(***************************************************************************)
(* C23.  The session behind the dispatch choice and the schedule time.     *)
(***************************************************************************)
\* C23: whenever the conversation of a user awaits the dispatch choice or the
\* schedule time, the user has a session with thumbnail, link text and variant
\* all set, whatever state a variant button was pressed in.
C23_SessionCompleteWhenDispatching ==
    \A u \in Users :
        conv[u] \in {SCHEDULE_OR_POST_NOW, SCHEDULE_TIME}
        => {"thumbnail_id", "thumbnail_type", "video_link", "bot_type"}
              \subseteq SessionFields(u)

(***************************************************************************)
(* C24.  The counts of a Posted status.                                    *)
(***************************************************************************)
\* C24: every stored entry that is Posted (success, total) has total equal to
\* the number of channels of its own snapshot and success at most total, also
\* when the owner has entries with the same fireAt and different snapshots.
C24_CountsOfOwnSnapshot ==
    \A u \in DOMAIN posts_file : \A i \in 1..Len(posts_file[u]) :
        posts_file[u][i].status[1] = "Posted"
        => /\ posts_file[u][i].status[3] = Len(posts_file[u][i].channels)
           /\ posts_file[u][i].status[2] <= posts_file[u][i].status[3]

(***************************************************************************)
(* C25.  The writes to the two stores under interleaving.                  *)
(***************************************************************************)
\* C25: no write to a durable store is lost, whatever handlers and job
\* coroutines interleave at their transport calls: over every step a channel
\* registered for a user is still registered, a post appended is still in the
\* owner's list (no list gets shorter), and an entry written Posted is still
\* Posted.
C25_NoStoreUpdateLost ==
    [][/\ \A u \in DOMAIN channels_file :
             /\ u \in DOMAIN channels_file'
             /\ \A c \in 1..Len(channels_file[u]) :
                   Contains(channels_file'[u], channels_file[u][c])
       /\ \A u \in DOMAIN posts_file :
             /\ u \in DOMAIN posts_file'
             /\ Len(posts_file'[u]) >= Len(posts_file[u])
             /\ \A i \in 1..Len(posts_file[u]) :
                   /\ posts_file'[u][i].thumbnail_id = posts_file[u][i].thumbnail_id
                   /\ posts_file[u][i].status[1] = "Posted"
                      => posts_file'[u][i].status[1] = "Posted"]_vars

\* two broadcasts of one owner are under way at once, the first with its status
\* written and its notification outstanding, the second between its two sends,
\* and the channel registered and both posts appended are in the stores
C25_WritesKeptWhileInterleaved ==
    /\ Len(running) = 2
    /\ running[1].pc = "notify"
    /\ running[2].pc = "send"
    /\ running[2].next = 2
    /\ running[1].post_data.user_id = running[2].post_data.user_id
    /\ LET u == running[1].post_data.user_id
       IN  /\ Len(Get(channels_file, u, <<>>)) = 2
           /\ Len(Get(posts_file, u, <<>>)) = 2
           /\ posts_file[u][1].status[1] = "Posted"
           /\ posts_file[u][2].status = Pending

(***************************************************************************)
(* C26.  Every scheduled post is posted, while the process keeps running.  *)
(***************************************************************************)
\* the process is not restarted, the scheduler runs every job that is due, and
\* every send and every notification of a broadcast returns
SpecLive ==
    /\ SpecRun
    /\ \A k \in 1..MaxPosts :
          /\ WF_vars(\E ok \in BOOLEAN : SendReturns(k, ok))
          /\ WF_vars(NotifyReturns(k))

StoredPending(u, i) ==
    /\ u \in DOMAIN posts_file
    /\ i <= Len(posts_file[u])
    /\ posts_file[u][i].status = Pending
    /\ Strptime(posts_file[u][i].time) <= MaxNow

StoredPosted(u, i) ==
    /\ u \in DOMAIN posts_file
    /\ i <= Len(posts_file[u])
    /\ posts_file[u][i].status[1] = "Posted"

\* C26: while the process keeps running and every transport call returns, every
\* post appended as Pending (with a fire time within the clock's range) is
\* eventually Posted.
C26_PendingEventuallyPosted ==
    \A u \in Users, i \in 1..MaxPosts : StoredPending(u, i) ~> StoredPosted(u, i)

\* two posts of one owner with different fire times, the second with two
\* channels, were both broadcast: no job and no coroutine is left, both are
\* Posted
C26_BothPosted ==
    /\ jobs = <<>>
    /\ running = <<>>
    /\ \E u \in DOMAIN posts_file :
          /\ Len(posts_file[u]) = 2
          /\ posts_file[u][1].status[1] = "Posted"
          /\ posts_file[u][2].status[1] = "Posted"
          /\ posts_file[u][1].time # posts_file[u][2].time
          /\ posts_file[u][2].status[3] = 2
=============================================================================
